---- MODULE Spec2Model ----
(***************************************************************************)
(* Client-side document list and status poller of the Q&A front end        *)
(* (frontend/src/App.tsx), together with the server's document store as    *)
(* the client sees it through the HTTP interface.                          *)
(*                                                                         *)
(* Every asynchronous handler is split at its await: the step that sends   *)
(* the request, the step in which the server answers it, and the step in   *)
(* which the client handles the answer.  A request that changes no client  *)
(* state when it is sent (status fetch of a timer, DELETE) is sent and     *)
(* answered in one step, because the server's answer is the first thing    *)
(* any other handler can observe of it.                                    *)
(***************************************************************************)
EXTENDS Integers, Sequences, FiniteSets, TLC

VARIABLES documents, srv, nextId, nFiles, uploads, sessions, deletes, load, advances,
          messages, isLoading, currentTab, selectedSources, chats, dropzone, rpc

vars == <<documents, srv, nextId, nFiles, uploads, sessions, deletes, load, advances,
          messages, isLoading, currentTab, selectedSources, chats, dropzone, rpc>>

\* the document list with its requests, and the chat part of the app state
docVars == <<documents, srv, nextId, nFiles, uploads, sessions, deletes, load, advances>>
chatVars == <<messages, isLoading, currentTab, selectedSources, chats>>

(***************************************************************************)
(* Bounds of the exploration.                                              *)
(***************************************************************************)
MaxFiles == 2      \* files handed to handleDocumentUpload, over all drops
MaxAnswers == 2    \* status fetches answered, over all sessions, in Spec
MaxAdvances == 1   \* pipeline steps in Spec
MaxDeletes == 1    \* clicks on a delete button
MaxDrops == 2      \* drops on the dropzone
MaxMessages == 2   \* chat messages sent

(***************************************************************************)
(* Program constants.                                                      *)
(***************************************************************************)
maxPolls == 30

NoError == "none"          \* undefined

NonTerminal == <<"uploading", "processing", "chunking", "embedding">>
Statuses == {"uploading", "processing", "chunking", "embedding", "ready", "error"}

(***************************************************************************)
(* Sequence helpers (Array.prototype.map / filter / some / find).          *)
(***************************************************************************)
Range(f) == {f[i] : i \in DOMAIN f}

RECURSIVE FilterOut(_, _)
FilterOut(docs, documentId) ==
    IF docs = <<>> THEN <<>>
    ELSE IF Head(docs).id # documentId
         THEN <<Head(docs)>> \o FilterOut(Tail(docs), documentId)
         ELSE FilterOut(Tail(docs), documentId)

SomeId(docs, id) == \E i \in DOMAIN docs : docs[i].id = id

(***************************************************************************)
(* The files the user drops.  The k-th file ever dropped is FileOf(k);     *)
(* its local id is the k-th value of Date.now() + Math.random().           *)
(***************************************************************************)
FileNames == <<"a.pdf", "b.txt", "c.PDF", "d.txt", "e.pdf", "f.txt">>
PdfNames == {"a.pdf", "c.PDF", "e.pdf", "old.pdf"}

FileOf(k) == [name |-> FileNames[k], size |-> 10 * k]

LocalId(k) == 0 - k

TypeOf(name) == IF name \in PdfNames THEN "pdf" ELSE "txt"

NewDocumentProcessing(k, now) ==
    [id |-> LocalId(k), name |-> FileOf(k).name, type |-> TypeOf(FileOf(k).name),
     size |-> FileOf(k).size, uploadedAt |-> now, status |-> "processing",
     progress |-> 50, error |-> NoError]

NewDocument(k, now) ==
    [id |-> LocalId(k), name |-> FileOf(k).name, type |-> TypeOf(FileOf(k).name),
     size |-> FileOf(k).size, uploadedAt |-> now, status |-> "uploading",
     progress |-> 0, error |-> NoError]

(***************************************************************************)
(* The server's document store, as the HTTP interface shows it.            *)
(***************************************************************************)
ServerHas(id) == SomeId(srv, id)

ServerIndex(id) == CHOOSE i \in DOMAIN srv : srv[i].id = id

ServerCreate(id, file, now) ==
    [id |-> id, filename |-> file.name, size |-> file.size, uploaded_at |-> now,
     status |-> "uploading", progress |-> 0, error |-> NoError]

NextStage(status) ==
    CASE status = "uploading" -> "processing"
      [] status = "processing" -> "chunking"
      [] status = "chunking" -> "embedding"
      [] status = "embedding" -> "ready"
      [] OTHER -> status

NoProgress == 0 - 1       \* advance() called without a progress

\* advance(id, nextStatus, progress?, error?) on the record of the id:
\* the result of the call and the record it leaves
AdvanceUnchecked(rec, nextStatus, progress, error) ==
    LET to == IF progress = NoProgress THEN rec.progress ELSE progress
    IN  IF error # NoError
        THEN [result |-> "ok",
              rec |-> [rec EXCEPT !.status = "error", !.error = error, !.progress = to]]
        ELSE IF nextStatus # rec.status
        THEN [result |-> "ok", rec |-> [rec EXCEPT !.status = nextStatus, !.progress = to]]
        ELSE [result |-> "InvalidTransition", rec |-> rec]

Advance(rec, nextStatus, progress, error) ==
    LET to == IF progress = NoProgress THEN rec.progress ELSE progress
    IN  IF rec.status \in {"ready", "error"}
        THEN [result |-> "InvalidTransition", rec |-> rec]
        ELSE IF error # NoError
        THEN [result |-> "ok",
              rec |-> [rec EXCEPT !.status = "error", !.error = error, !.progress = to]]
        ELSE IF nextStatus = NextStage(rec.status)
        THEN [result |-> "ok", rec |-> [rec EXCEPT !.status = nextStatus, !.progress = to]]
        ELSE [result |-> "InvalidTransition", rec |-> rec]

\* a step of the processing pipeline: the next stage, or the failure
ServerAdvance(rec, failed) ==
    Advance(rec, NextStage(rec.status),
            IF ~failed /\ NextStage(rec.status) = "ready" THEN 100 ELSE NoProgress,
            IF failed THEN "Processing failed" ELSE NoError).rec

ServerDelete(id) == FilterOut(srv, id)

InitialServers ==
    {<<>>} \cup
    {<<[id |-> 1, filename |-> "old.pdf", size |-> 5, uploaded_at |-> 0,
        status |-> s, progress |-> IF s = "ready" THEN 100 ELSE 0,
        error |-> IF s = "error" THEN "Processing failed" ELSE NoError]>> :
       s \in {"embedding"}}

(***************************************************************************)
(* HTTP answers.                                                           *)
(***************************************************************************)
NoAnswer == [kind |-> "none", status |-> "none", error |-> NoError]

StatusAnswer(id, outcome) ==
    IF outcome = "throw" THEN [kind |-> "throw", status |-> "none", error |-> NoError]
    ELSE IF outcome = "servererror"
    THEN [kind |-> "servererror", status |-> "none", error |-> NoError]
    ELSE IF ServerHas(id)
    THEN [kind |-> "ok", status |-> srv[ServerIndex(id)].status,
          error |-> srv[ServerIndex(id)].error]
    ELSE [kind |-> "notfound", status |-> "none", error |-> NoError]

ResponseOk(answer) == answer.kind = "ok"

(***************************************************************************)
(* loadExistingDocuments                                                   *)
(***************************************************************************)
ExistingDocument(doc) ==
    [id |-> doc.id, name |-> doc.filename, type |-> TypeOf(doc.filename),
     size |-> doc.size, uploadedAt |-> doc.uploaded_at, status |-> doc.status,
     progress |-> IF doc.status = "ready" THEN 100 ELSE 0, error |-> doc.error]

ExistingDocuments(list) == [i \in DOMAIN list |-> ExistingDocument(list[i])]

LoadServe(outcome) ==
    /\ load.pc = "sent"
    /\ load' = [pc |-> "answered", kind |-> outcome,
                documents |-> IF outcome = "ok" THEN srv ELSE <<>>]
    /\ UNCHANGED <<documents, srv, nextId, nFiles, uploads, sessions, deletes, advances, chatVars, dropzone, rpc>>

LoadResponse ==
    /\ load.pc = "answered"
    /\ documents' = IF load.kind = "ok" THEN ExistingDocuments(load.documents)
                    ELSE documents
    /\ load' = [pc |-> "done", kind |-> "none", documents |-> <<>>]
    /\ UNCHANGED <<srv, nextId, nFiles, uploads, sessions, deletes, advances, chatVars, dropzone, rpc>>

(***************************************************************************)
(* handleDocumentUpload                                                    *)
(***************************************************************************)
NewDocuments(n) == [i \in 1..n |-> NewDocument(nFiles + i, Len(uploads) + 1)]

\* result.documents[index]?.id || doc.id
IdOr(resultDocuments, index, fallback) ==
    IF index \in DOMAIN resultDocuments THEN resultDocuments[index].id ELSE fallback

UpdatedDocumentsFull(newDocuments, resultDocuments) ==
    [index \in DOMAIN newDocuments |->
        [newDocuments[index] EXCEPT
            !.id = IdOr(resultDocuments, index, newDocuments[index].id),
            !.status = "processing",
            !.progress = 100]]

UpdatedDocuments(newDocuments, resultDocuments) ==
    [index \in DOMAIN newDocuments |->
        [newDocuments[index] EXCEPT
            !.id = IdOr(resultDocuments, index, newDocuments[index].id),
            !.status = "processing",
            !.progress = 50]]

\* updatedDocuments.find(ud => newDocuments.some(nd => nd.id === doc.id)):
\* the predicate does not depend on ud, so find returns the first element of
\* updatedDocuments whenever doc is one of the new documents.
FindUpdated(updatedDocuments, newDocuments, doc) ==
    IF SomeId(newDocuments, doc.id) /\ updatedDocuments # <<>>
    THEN <<updatedDocuments[1]>>
    ELSE <<>>

MergeUpdated(docs, updatedDocuments, newDocuments) ==
    [p \in DOMAIN docs |->
        LET updatedDoc == FindUpdated(updatedDocuments, newDocuments, docs[p])
        IN  IF updatedDoc # <<>> THEN updatedDoc[1] ELSE docs[p]]

MarkFailedAll(docs, newDocuments, message) ==
    [p \in DOMAIN docs |-> [docs[p] EXCEPT !.status = "error", !.error = message]]

MarkFailedNoMessage(docs, newDocuments, message) ==
    [p \in DOMAIN docs |->
        IF SomeId(newDocuments, docs[p].id)
        THEN [docs[p] EXCEPT !.status = "error"]
        ELSE docs[p]]

MarkFailed(docs, newDocuments, message) ==
    [p \in DOMAIN docs |->
        IF SomeId(newDocuments, docs[p].id)
        THEN [docs[p] EXCEPT !.status = "error", !.error = message]
        ELSE docs[p]]

\* history counters stop counting one past the attempt budget
Count(n) == IF n > maxPolls THEN n ELSE n + 1

\* pollDocumentStatus(documentId): the closure's variables and the first
\* poll(), which runs up to its fetch.
NewSession(documentId) ==
    [documentId |-> documentId, pc |-> "sent", pollCount |-> 0, answer |-> NoAnswer,
     fetches |-> 1, nonTerminals |-> 0, seen |-> "none"]

\* a handler that has returned keeps nothing
UploadDone == [pc |-> "done", newDocuments |-> <<>>, kind |-> "none", documents |-> <<>>]

UploadStartPrepend(n, outcome) ==
    LET newDocuments == NewDocuments(n)
        created == [i \in 1..n |-> ServerCreate(nextId + i - 1, FileOf(nFiles + i),
                                                Len(uploads) + 1)]
    IN  /\ n >= 1
        /\ documents' = newDocuments \o documents
        /\ nFiles' = nFiles + n
        /\ srv' = IF outcome = "ok" THEN srv \o created ELSE srv
        /\ nextId' = IF outcome = "ok" THEN nextId + n ELSE nextId
        /\ uploads' = Append(uploads,
              [pc |-> "sent", newDocuments |-> newDocuments, kind |-> outcome,
               documents |-> IF outcome = "ok" THEN [i \in 1..n |-> [id |-> created[i].id]]
                             ELSE <<>>])
        /\ UNCHANGED <<sessions, deletes, load, advances, chatVars, dropzone, rpc>>

UploadStart(n, outcome) ==
    LET newDocuments == NewDocuments(n)
        created == [i \in 1..n |-> ServerCreate(nextId + i - 1, FileOf(nFiles + i),
                                                Len(uploads) + 1)]
    IN  /\ n >= 1
        /\ documents' = documents \o newDocuments
        /\ nFiles' = nFiles + n
        /\ srv' = IF outcome = "ok" THEN srv \o created ELSE srv
        /\ nextId' = IF outcome = "ok" THEN nextId + n ELSE nextId
        /\ uploads' = Append(uploads,
              [pc |-> "sent", newDocuments |-> newDocuments, kind |-> outcome,
               documents |-> IF outcome = "ok" THEN [i \in 1..n |-> [id |-> created[i].id]]
                             ELSE <<>>])
        /\ UNCHANGED <<sessions, deletes, load, advances, chatVars, dropzone, rpc>>

UploadResponse(u) ==
    /\ u \in DOMAIN uploads
    /\ uploads[u].pc = "sent"
    /\ LET up == uploads[u]
           updatedDocuments == UpdatedDocuments(up.newDocuments, up.documents)
       IN  /\ documents' =
                 CASE up.kind = "ok" -> MergeUpdated(documents, updatedDocuments, up.newDocuments)
                   [] up.kind = "fail" -> MarkFailed(documents, up.newDocuments, "Upload failed")
                   [] OTHER -> MarkFailed(documents, up.newDocuments, "Network error")
           /\ sessions' =
                 IF up.kind = "ok"
                 THEN sessions \o [i \in DOMAIN updatedDocuments |->
                                      NewSession(updatedDocuments[i].id)]
                 ELSE sessions
    /\ uploads' = [uploads EXCEPT ![u] = UploadDone]
    /\ UNCHANGED <<srv, nextId, nFiles, deletes, load, advances, chatVars, dropzone, rpc>>

(***************************************************************************)
(* pollDocumentStatus                                                      *)
(***************************************************************************)
IsTerminalReadyOnly(status) == status = "ready"

IsTerminal(status) == status = "ready" \/ status = "error"

ShouldRescheduleInclusive(pollCount) == pollCount <= maxPolls

ShouldRescheduleEarly(pollCount) == pollCount < maxPolls - 1

ShouldReschedule(pollCount) == pollCount < maxPolls

ApplyStatusStamp(doc, statusData) ==
    [doc EXCEPT !.status = statusData.status,
                !.error = statusData.error,
                !.progress = IF statusData.status = "ready" THEN 100 ELSE 75,
                !.uploadedAt = 99]

ApplyStatusHalf(doc, statusData) ==
    [doc EXCEPT !.status = statusData.status,
                !.error = statusData.error,
                !.progress = IF statusData.status = "ready" THEN 100 ELSE 50]

ApplyStatusFlat(doc, statusData) ==
    [doc EXCEPT !.status = statusData.status,
                !.error = statusData.error,
                !.progress = 75]

ApplyStatus(doc, statusData) ==
    [doc EXCEPT !.status = statusData.status,
                !.error = statusData.error,
                !.progress = IF statusData.status = "ready" THEN 100 ELSE 75]

PollDocumentsUpsert(docs, documentId, statusData) ==
    IF SomeId(docs, documentId)
    THEN [p \in DOMAIN docs |->
            IF docs[p].id = documentId THEN ApplyStatus(docs[p], statusData) ELSE docs[p]]
    ELSE Append(docs, ApplyStatus([NewDocument(1, 0) EXCEPT !.id = documentId], statusData))

PollDocuments(docs, documentId, statusData) ==
    [p \in DOMAIN docs |->
        IF docs[p].id = documentId THEN ApplyStatus(docs[p], statusData) ELSE docs[p]]

AfterOkNoReturn(statusData, pollCount) ==
    [pc |-> IF ShouldReschedule(pollCount + 1) THEN "timer" ELSE "done",
     pollCount |-> pollCount + 1]

AfterOkNoCount(statusData, pollCount) ==
    IF IsTerminal(statusData.status)
    THEN [pc |-> "done", pollCount |-> pollCount]
    ELSE [pc |-> IF ShouldReschedule(pollCount) THEN "timer" ELSE "done",
          pollCount |-> pollCount]

AfterOk(statusData, pollCount) ==
    IF IsTerminal(statusData.status)
    THEN [pc |-> "done", pollCount |-> pollCount]
    ELSE [pc |-> IF ShouldReschedule(pollCount + 1) THEN "timer" ELSE "done",
          pollCount |-> pollCount + 1]

AfterNotOkRetry(pollCount) ==
    [pc |-> IF ShouldReschedule(pollCount + 1) THEN "timer" ELSE "done",
     pollCount |-> pollCount + 1]

\* if (response.ok) { ... } has no else branch: poll() returns.
AfterNotOk(pollCount) == [pc |-> "done", pollCount |-> pollCount]

\* catch (error) { console.error(...) }: poll() returns.
AfterThrow(pollCount) == [pc |-> "done", pollCount |-> pollCount]

Seen(answer) == IF ResponseOk(answer) THEN answer.status ELSE answer.kind

PollServe(s, outcome) ==
    /\ s \in DOMAIN sessions
    /\ sessions[s].pc = "sent"
    /\ sessions' = [sessions EXCEPT ![s].pc = "answered",
                                    ![s].answer = StatusAnswer(sessions[s].documentId, outcome)]
    /\ UNCHANGED <<documents, srv, nextId, nFiles, uploads, deletes, load, advances, chatVars, dropzone, rpc>>

PollResponse(s) ==
    /\ s \in DOMAIN sessions
    /\ sessions[s].pc = "answered"
    /\ LET session == sessions[s]
           answer == session.answer
           after == CASE ResponseOk(answer) -> AfterOk(answer, session.pollCount)
                      [] answer.kind = "throw" -> AfterThrow(session.pollCount)
                      [] OTHER -> AfterNotOk(session.pollCount)
       IN  /\ documents' = IF ResponseOk(answer)
                           THEN PollDocuments(documents, session.documentId, answer)
                           ELSE documents
           /\ sessions' = [sessions EXCEPT
                 ![s].pc = after.pc,
                 ![s].pollCount = after.pollCount,
                 ![s].answer = NoAnswer,
                 ![s].nonTerminals = IF ResponseOk(answer) /\ answer.status \in Range(NonTerminal)
                                     THEN Count(@) ELSE @,
                 ![s].seen = Seen(answer)]
    /\ UNCHANGED <<srv, nextId, nFiles, uploads, deletes, load, advances, chatVars, dropzone, rpc>>

\* setTimeout(poll, 10000) fires: poll() runs up to its fetch.
PollTimer(s) ==
    /\ s \in DOMAIN sessions
    /\ sessions[s].pc = "timer"
    /\ sessions' = [sessions EXCEPT ![s].pc = "sent", ![s].fetches = Count(@)]
    /\ UNCHANGED <<documents, srv, nextId, nFiles, uploads, deletes, load, advances, chatVars, dropzone, rpc>>

(***************************************************************************)
(* handleDeleteDocument                                                    *)
(***************************************************************************)
DeleteDone == [pc |-> "done", documentId |-> 0, kind |-> "none"]

DeleteStart(documentId, outcome) ==
    /\ SomeId(documents, documentId)
    /\ srv' = IF outcome = "ok" THEN ServerDelete(documentId) ELSE srv
    /\ deletes' = Append(deletes, [pc |-> "sent", documentId |-> documentId, kind |-> outcome])
    /\ UNCHANGED <<documents, nextId, nFiles, uploads, sessions, load, advances, chatVars, dropzone, rpc>>

DeleteResponseOptimistic(d) ==
    /\ d \in DOMAIN deletes
    /\ deletes[d].pc = "sent"
    /\ documents' = FilterOut(documents, deletes[d].documentId)
    /\ deletes' = [deletes EXCEPT ![d] = DeleteDone]
    /\ UNCHANGED <<srv, nextId, nFiles, uploads, sessions, load, advances, chatVars, dropzone, rpc>>

DeleteResponse(d) ==
    /\ d \in DOMAIN deletes
    /\ deletes[d].pc = "sent"
    /\ documents' = IF deletes[d].kind = "ok"
                    THEN FilterOut(documents, deletes[d].documentId)
                    ELSE documents
    /\ deletes' = [deletes EXCEPT ![d] = DeleteDone]
    /\ UNCHANGED <<srv, nextId, nFiles, uploads, sessions, load, advances, chatVars, dropzone, rpc>>

(***************************************************************************)
(* The processing pipeline advances a stored document.                     *)
(***************************************************************************)
PipelineAdvance(i, failed) ==
    /\ i \in DOMAIN srv
    /\ ~IsTerminal(srv[i].status)
    /\ srv' = [srv EXCEPT ![i] = ServerAdvance(srv[i], failed)]
    /\ advances' = advances + 1
    /\ UNCHANGED <<documents, nextId, nFiles, uploads, sessions, deletes, load, chatVars, dropzone, rpc>>

(***************************************************************************)
(* The operations of the server's state machine, called one at a time.     *)
(* rpc holds the last call: the operation, the id, the result, the record  *)
(* of the id before the call, and the ids delete() was called with.        *)
(***************************************************************************)
NoDocument == [id |-> 0, status |-> "absent"]

NoCall ==
    [op |-> "none", id |-> 0, nextStatus |-> "none", error |-> NoError, result |-> "none",
     before |-> NoDocument, deleted |-> {}]

RecordOf(id) == IF ServerHas(id) THEN srv[ServerIndex(id)] ELSE NoDocument

CreateCall ==
    /\ srv' = Append(srv, ServerCreate(nextId, FileOf(nextId), 0))
    /\ nextId' = nextId + 1
    /\ rpc' = [rpc EXCEPT !.op = "create", !.id = nextId, !.result = "ok",
                          !.before = NoDocument, !.nextStatus = "none", !.error = NoError]
    /\ UNCHANGED <<documents, nFiles, uploads, sessions, deletes, load, advances,
                   chatVars, dropzone>>

AdvanceCallUpsert(id, nextStatus, progress, error) ==
    LET r == Advance(RecordOf(id), nextStatus, progress, error)
        made == [ServerCreate(id, FileOf(id), 0) EXCEPT !.status = nextStatus]
    IN  /\ IF ServerHas(id)
           THEN /\ srv' = [srv EXCEPT ![ServerIndex(id)] = r.rec]
                /\ rpc' = [rpc EXCEPT !.op = "advance", !.id = id, !.result = r.result,
                                      !.before = RecordOf(id),
                                      !.nextStatus = nextStatus, !.error = error]
           ELSE /\ srv' = Append(srv, made)
                /\ rpc' = [rpc EXCEPT !.op = "advance", !.id = id, !.result = "ok",
                                      !.before = NoDocument,
                                      !.nextStatus = nextStatus, !.error = error]
        /\ UNCHANGED <<documents, nextId, nFiles, uploads, sessions, deletes, load, advances,
                       chatVars, dropzone>>

AdvanceCall(id, nextStatus, progress, error) ==
    LET r == Advance(RecordOf(id), nextStatus, progress, error)
    IN  /\ IF ServerHas(id)
           THEN /\ srv' = [srv EXCEPT ![ServerIndex(id)] = r.rec]
                /\ rpc' = [rpc EXCEPT !.op = "advance", !.id = id, !.result = r.result,
                                      !.before = RecordOf(id),
                                      !.nextStatus = nextStatus, !.error = error]
           ELSE /\ srv' = srv
                /\ rpc' = [rpc EXCEPT !.op = "advance", !.id = id, !.result = "NotFound",
                                      !.before = NoDocument,
                                      !.nextStatus = nextStatus, !.error = error]
        /\ UNCHANGED <<documents, nextId, nFiles, uploads, sessions, deletes, load, advances,
                       chatVars, dropzone>>

GetCall(id) ==
    /\ rpc' = [rpc EXCEPT !.op = "get", !.id = id,
                          !.result = IF ServerHas(id) THEN "ok" ELSE "NotFound",
                          !.before = RecordOf(id), !.nextStatus = "none", !.error = NoError]
    /\ UNCHANGED <<docVars, chatVars, dropzone>>

DeleteCall(id) ==
    /\ srv' = ServerDelete(id)
    /\ rpc' = [rpc EXCEPT !.op = "delete", !.id = id, !.result = "ok",
                          !.before = RecordOf(id), !.deleted = @ \cup {id},
                          !.nextStatus = "none", !.error = NoError]
    /\ UNCHANGED <<documents, nextId, nFiles, uploads, sessions, deletes, load, advances,
                   chatVars, dropzone>>

(***************************************************************************)
(* Specifications.                                                         *)
(***************************************************************************)
RECURSIVE AnsweredUpTo(_)
AnsweredUpTo(k) ==
    IF k = 0 THEN 0
    ELSE AnsweredUpTo(k - 1) + sessions[k].fetches
                             - (IF sessions[k].pc = "sent" THEN 1 ELSE 0)

\* status fetches the server has answered so far, over all sessions
Answered == AnsweredUpTo(Len(sessions))

Outcomes == {"ok", "servererror", "throw"}
UploadOutcomes == {"ok", "fail", "throw"}

(***************************************************************************)
(* The dropzone (components/DocumentUpload.tsx).  onDrop gets the files    *)
(* the dropzone library accepted and the ones it rejected; the files that  *)
(* pass validateFile go to onUpload, which is handleDocumentUpload.        *)
(***************************************************************************)
allowedTypes == {"application/pdf", "text/plain"}
maxSize == 10 * 1024 * 1024

NoUploadError == "null"

DropFiles ==
    {[name |-> "a.pdf", type |-> "application/pdf", size |-> 10 * 1024 * 1024],
     [name |-> "c.PDF", type |-> "application/pdf", size |-> 10 * 1024 * 1024 + 1],
     [name |-> "e.pdf", type |-> "application/pdf", size |-> 15 * 1024 * 1024],
     [name |-> "b.txt", type |-> "text/plain", size |-> 100],
     [name |-> "g.docx", type |-> "application/msword", size |-> 100]}

RECURSIVE SeqsUpTo(_, _)
SeqsUpTo(S, n) ==
    IF n = 0 THEN {<<>>}
    ELSE SeqsUpTo(S, n - 1) \cup {Append(q, x) : q \in SeqsUpTo(S, n - 1), x \in S}

ValidateFileStrict(file) ==
    /\ file.type \in allowedTypes
    /\ ~(file.size >= maxSize)

ValidateFile(file) ==
    /\ file.type \in allowedTypes
    /\ ~(file.size > maxSize)

\* the message validateFile leaves in uploadError for a file it refuses
ValidateError(file) ==
    IF file.type \notin allowedTypes THEN "Only PDF and TXT files are supported"
    ELSE "File size must be less than 10MB"

\* uploadError after acceptedFiles.filter(validateFile), starting from error
RECURSIVE ErrorAfter(_, _)
ErrorAfter(files, error) ==
    IF files = <<>> THEN error
    ELSE ErrorAfter(Tail(files),
                    IF ValidateFile(Head(files)) THEN error ELSE ValidateError(Head(files)))

NoDrop ==
    [drops |-> 0, acceptedFiles |-> <<>>, rejectedFiles |-> <<>>,
     uploadError |-> NoUploadError, onUpload |-> <<>>]

NewDocumentOf(file, k, now) ==
    [id |-> LocalId(k), name |-> file.name, type |-> TypeOf(file.name),
     size |-> file.size, uploadedAt |-> now, status |-> "uploading",
     progress |-> 0, error |-> NoError]

\* handleDocumentUpload(files) up to the answer of POST /upload
HandleDocumentUpload(files, outcome) ==
    LET n == Len(files)
        newDocuments == [i \in 1..n |-> NewDocumentOf(files[i], nFiles + i, Len(uploads) + 1)]
        created == [i \in 1..n |-> ServerCreate(nextId + i - 1, files[i], Len(uploads) + 1)]
    IN  /\ documents' = documents \o newDocuments
        /\ nFiles' = nFiles + n
        /\ srv' = IF outcome = "ok" THEN srv \o created ELSE srv
        /\ nextId' = IF outcome = "ok" THEN nextId + n ELSE nextId
        /\ uploads' = Append(uploads,
              [pc |-> "sent", newDocuments |-> newDocuments, kind |-> outcome,
               documents |-> IF outcome = "ok" THEN [i \in 1..n |-> [id |-> created[i].id]]
                             ELSE <<>>])
        /\ UNCHANGED <<sessions, deletes, load, advances>>

OnDropPartial(acceptedFiles, rejectedFiles, outcome) ==
    LET validFiles == SelectSeq(acceptedFiles, ValidateFile)
    IN  /\ dropzone' = [drops |-> dropzone.drops + 1,
                        acceptedFiles |-> acceptedFiles,
                        rejectedFiles |-> rejectedFiles,
                        uploadError |->
                          IF Len(rejectedFiles) > 0
                          THEN "Some files were rejected. Please check file type and size."
                          ELSE ErrorAfter(acceptedFiles, NoUploadError),
                        onUpload |-> IF Len(validFiles) > 0 THEN <<validFiles>>
                                     ELSE <<>>]
        /\ IF Len(validFiles) > 0
           THEN HandleDocumentUpload(validFiles, outcome)
           ELSE UNCHANGED docVars
        /\ UNCHANGED <<chatVars, rpc>>

OnDrop(acceptedFiles, rejectedFiles, outcome) ==
    LET validFiles == SelectSeq(acceptedFiles, ValidateFile)
    IN  /\ IF Len(rejectedFiles) > 0
           THEN /\ dropzone' = [drops |-> dropzone.drops + 1,
                                acceptedFiles |-> acceptedFiles,
                                rejectedFiles |-> rejectedFiles,
                                uploadError |->
                                  "Some files were rejected. Please check file type and size.",
                                onUpload |-> <<>>]
                /\ UNCHANGED docVars
           ELSE /\ dropzone' = [drops |-> dropzone.drops + 1,
                                acceptedFiles |-> acceptedFiles,
                                rejectedFiles |-> rejectedFiles,
                                uploadError |-> ErrorAfter(acceptedFiles, NoUploadError),
                                onUpload |-> IF Len(validFiles) > 0 THEN <<validFiles>>
                                             ELSE <<>>]
                /\ IF Len(validFiles) > 0
                   THEN HandleDocumentUpload(validFiles, outcome)
                   ELSE UNCHANGED docVars
        /\ UNCHANGED <<chatVars, rpc>>

(***************************************************************************)
(* The chat (handleSendMessage of App.tsx, form and suggested questions of *)
(* ChatInterface).  A text is the sequence of its tokens; " " is white     *)
(* space.  The answer of POST /chat is an input of the step that sends it. *)
(***************************************************************************)
RECURSIVE TrimStart(_)
TrimStart(text) ==
    IF text # <<>> /\ Head(text) = " " THEN TrimStart(Tail(text)) ELSE text

RECURSIVE TrimEnd(_)
TrimEnd(text) ==
    IF text # <<>> /\ text[Len(text)] = " "
    THEN TrimEnd(SubSeq(text, 1, Len(text) - 1))
    ELSE text

Trim(text) == TrimEnd(TrimStart(text))

InputMessages == {<<>>, <<" ">>, <<"hi">>, <<" ", "hi", " ">>}
suggestedQuestions == <<<<"How", " ", "do", " ", "I", " ", "file", " ", "a", " ", "claim?">>>>

NoSources == <<>>
SomeSources == <<[id |-> "s1", documentName |-> "old.pdf", content |-> "text"]>>

\* response.ok, result.success, result.answer, result.sources, result.error
ChatOutcomes ==
    {[kind |-> "ok", success |-> TRUE, answer |-> <<"answer">>, sources |-> NoSources,
      error |-> <<>>],
     [kind |-> "ok", success |-> TRUE, answer |-> <<"answer">>, sources |-> SomeSources,
      error |-> <<>>],
     [kind |-> "ok", success |-> FALSE, answer |-> <<>>, sources |-> NoSources,
      error |-> <<"No", " ", "documents">>],
     [kind |-> "servererror", success |-> FALSE, answer |-> <<>>, sources |-> NoSources,
      error |-> <<>>],
     [kind |-> "throw", success |-> FALSE, answer |-> <<>>, sources |-> NoSources,
      error |-> <<>>]}

hasDocuments == \E p \in DOMAIN documents : documents[p].status = "ready"

InitChat ==
    /\ messages = <<>>
    /\ isLoading = FALSE
    /\ currentTab = "chat"
    /\ selectedSources = <<>>
    /\ chats = <<>>

\* handleSendMessage up to the answer of POST /chat
HandleSendMessage(message, result) ==
    /\ messages' = Append(messages, [type |-> "user", content |-> message])
    /\ isLoading' = TRUE
    /\ chats' = Append(chats, [pc |-> "sent", result |-> result])
    /\ UNCHANGED <<currentTab, selectedSources, docVars, dropzone, rpc>>

ErrorContent(result) ==
    IF result.error # <<>> THEN result.error
    ELSE <<"Sorry,", " ", "I", " ", "encountered", " ", "an", " ", "error.">>

ConnectContent == <<"Sorry,", " ", "I", " ", "couldn't", " ", "connect.">>

ChatResponseNoCatch(c) ==
    LET result == chats[c].result
    IN  /\ c \in DOMAIN chats
        /\ chats[c].pc = "sent"
        /\ chats' = [chats EXCEPT ![c].pc = "done"]
        /\ IF result.kind = "throw"
           THEN UNCHANGED <<messages, isLoading, selectedSources>>
           ELSE IF result.kind = "ok" /\ result.success
           THEN /\ messages' = Append(messages,
                                      [type |-> "assistant", content |-> result.answer])
                /\ isLoading' = FALSE
                /\ selectedSources' = result.sources
           ELSE /\ messages' = Append(messages,
                                      [type |-> "assistant", content |-> ErrorContent(result)])
                /\ isLoading' = FALSE
                /\ UNCHANGED selectedSources
        /\ UNCHANGED <<currentTab, docVars, dropzone, rpc>>

\* handleSendMessage from the answer of POST /chat on
ChatResponse(c) ==
    LET result == chats[c].result
    IN  /\ c \in DOMAIN chats
        /\ chats[c].pc = "sent"
        /\ chats' = [chats EXCEPT ![c].pc = "done"]
        /\ IF result.kind = "throw"
           THEN /\ messages' = Append(messages,
                                      [type |-> "assistant", content |-> ConnectContent])
                /\ isLoading' = FALSE
                /\ UNCHANGED selectedSources
           ELSE IF result.kind = "ok" /\ result.success
           THEN /\ messages' = Append(messages,
                                      [type |-> "assistant", content |-> result.answer])
                /\ isLoading' = FALSE
                /\ selectedSources' = result.sources
           ELSE /\ messages' = Append(messages,
                                      [type |-> "assistant", content |-> ErrorContent(result)])
                /\ isLoading' = FALSE
                /\ UNCHANGED selectedSources
        /\ UNCHANGED <<currentTab, docVars, dropzone, rpc>>

HandleSubmitNoGuard(inputMessage, result) ==
    /\ currentTab = "chat"
    /\ hasDocuments
    /\ Trim(inputMessage) # <<>>
    /\ HandleSendMessage(Trim(inputMessage), result)

\* ChatInterface is rendered with its form when the chat tab is shown and
\* some document is ready
HandleSubmit(inputMessage, result) ==
    /\ currentTab = "chat"
    /\ hasDocuments
    /\ Trim(inputMessage) # <<>>
    /\ ~isLoading
    /\ HandleSendMessage(Trim(inputMessage), result)

\* the suggested questions are rendered while the message list is empty
HandleSuggestedQuestion(question, result) ==
    /\ currentTab = "chat"
    /\ hasDocuments
    /\ Len(messages) = 0
    /\ ~isLoading
    /\ HandleSendMessage(question, result)

HandleTabChange(tab) ==
    /\ currentTab' = tab
    /\ UNCHANGED <<messages, isLoading, selectedSources, chats, docVars, dropzone, rpc>>

Init ==
    /\ documents = <<>>
    /\ srv \in InitialServers
    /\ nextId = Len(srv) + 1
    /\ nFiles = 0
    /\ uploads = <<>>
    /\ sessions = <<>>
    /\ deletes = <<>>
    /\ load = [pc |-> "sent", kind |-> "none", documents |-> <<>>]
    /\ advances = 0
    /\ InitChat
    /\ dropzone = NoDrop
    /\ rpc = NoCall

Upload == \E n \in 1..MaxFiles, o \in UploadOutcomes :
              nFiles + n <= MaxFiles /\ UploadStart(n, o)
Uploaded == \E u \in DOMAIN uploads : UploadResponse(u)
Loading == \E o \in Outcomes : LoadServe(o)
Serve == \E s \in DOMAIN sessions, o \in Outcomes : Answered < MaxAnswers /\ PollServe(s, o)
Tick == \E s \in DOMAIN sessions : PollResponse(s)
Timer == \E s \in DOMAIN sessions : Answered < MaxAnswers /\ PollTimer(s)
Delete == \E p \in DOMAIN documents, o \in Outcomes :
              Len(deletes) < MaxDeletes /\ DeleteStart(documents[p].id, o)
Deleted == \E d \in DOMAIN deletes : DeleteResponse(d)
Pipeline == \E i \in DOMAIN srv, failed \in BOOLEAN :
                advances < MaxAdvances /\ PipelineAdvance(i, failed)
PipelineAny == \E i \in DOMAIN srv, failed \in BOOLEAN : PipelineAdvance(i, failed)
ServeAny == \E s \in DOMAIN sessions, o \in Outcomes : PollServe(s, o)

Next ==
    \/ Upload
    \/ Uploaded
    \/ Loading
    \/ LoadResponse
    \/ Serve
    \/ Tick
    \/ Timer
    \/ Delete
    \/ Deleted
    \/ Pipeline

Spec == Init /\ [][Next]_vars

\* One file, one polling session, followed over its whole attempt budget.
InitPoll ==
    /\ documents = <<>>
    /\ srv = <<>>
    /\ nextId = 1
    /\ nFiles = 0
    /\ uploads = <<>>
    /\ sessions = <<>>
    /\ deletes = <<>>
    /\ load = [pc |-> "done", kind |-> "none", documents |-> <<>>]
    /\ advances = 0
    /\ InitChat
    /\ dropzone = NoDrop
    /\ rpc = NoCall

UploadOne == \E o \in UploadOutcomes : nFiles = 0 /\ UploadStart(1, o)
TimerAny == \E s \in DOMAIN sessions : PollTimer(s)

NextPoll ==
    \/ UploadOne
    \/ Uploaded
    \/ ServeAny
    \/ Tick
    \/ TimerAny
    \/ Delete
    \/ Deleted
    \/ PipelineAny

SpecPoll == InitPoll /\ [][NextPoll]_vars

\* One file and the startup load, with every stage of the pipeline.
NextDoc ==
    \/ UploadOne
    \/ Uploaded
    \/ Loading
    \/ LoadResponse
    \/ Serve
    \/ Tick
    \/ Timer
    \/ Delete
    \/ Deleted
    \/ PipelineAny

SpecDoc == Init /\ [][NextDoc]_vars

\* each fetch completes, each answer is handled, each timer fires
SpecPollFair ==
    /\ SpecPoll
    /\ \A s \in 1..MaxFiles :
          /\ WF_vars(\E o \in Outcomes : PollServe(s, o))
          /\ WF_vars(PollResponse(s))
          /\ WF_vars(PollTimer(s))

\* The dropzone in front of the upload handler.
Drop == \E acceptedFiles \in SeqsUpTo(DropFiles, MaxFiles),
           rejectedFiles \in {<<>>, <<[file |-> "g.docx"]>>},
           o \in UploadOutcomes :
            /\ dropzone.drops < MaxDrops
            /\ nFiles + Len(acceptedFiles) <= MaxFiles
            /\ OnDrop(acceptedFiles, rejectedFiles, o)

NextDrop ==
    \/ Drop
    \/ Uploaded

SpecDrop == InitPoll /\ [][NextDrop]_vars

\* The chat, opened on a list that holds one ready document.
ReadyServer ==
    <<[id |-> 1, filename |-> "old.pdf", size |-> 5, uploaded_at |-> 0,
       status |-> "ready", progress |-> 100, error |-> NoError]>>

InitReady ==
    /\ srv = ReadyServer
    /\ documents = ExistingDocuments(srv)
    /\ nextId = Len(srv) + 1
    /\ nFiles = 0
    /\ uploads = <<>>
    /\ sessions = <<>>
    /\ deletes = <<>>
    /\ load = [pc |-> "done", kind |-> "none", documents |-> <<>>]
    /\ advances = 0
    /\ InitChat
    /\ dropzone = NoDrop
    /\ rpc = NoCall

Submit == \E inputMessage \in InputMessages, result \in ChatOutcomes :
              Len(chats) < MaxMessages /\ HandleSubmit(inputMessage, result)
Suggest == \E q \in DOMAIN suggestedQuestions, result \in ChatOutcomes :
               Len(chats) < MaxMessages /\ HandleSuggestedQuestion(suggestedQuestions[q], result)
ChatAnswered == \E c \in DOMAIN chats : ChatResponse(c)
TabChange == \E tab \in {"chat", "sources"} : HandleTabChange(tab)

NextChat ==
    \/ Submit
    \/ Suggest
    \/ ChatAnswered
    \/ TabChange
    \/ Delete
    \/ Deleted

SpecChat == InitReady /\ [][NextChat]_vars

\* each chat request completes and its answer is handled
SpecChatFair ==
    /\ SpecChat
    /\ \A c \in 1..MaxMessages : WF_vars(ChatResponse(c))

\* The server's state machine under every call of its operations.
\* the ids a caller can hold: the ones create() has returned, and one that
\* create() never returns
CallIds == 1..(nextId - 1) \cup {MaxFiles + 1}

Create == nextId <= MaxFiles /\ CreateCall
AdvanceAny == \E id \in CallIds, nextStatus \in Statuses, progress \in {NoProgress, 100},
                 error \in {NoError, "msg"} :
                  AdvanceCall(id, nextStatus, progress, error)
Get == \E id \in CallIds : GetCall(id)
DeleteAny == \E id \in CallIds : DeleteCall(id)

NextServer ==
    \/ Create
    \/ AdvanceAny
    \/ Get
    \/ DeleteAny

SpecServer == InitPoll /\ [][NextServer]_vars

\* One upload and its polling session next to the chat.
NextTick ==
    \/ UploadOne
    \/ Uploaded
    \/ Serve
    \/ Tick
    \/ Timer
    \/ Pipeline
    \/ Submit
    \/ ChatAnswered
    \/ TabChange

SpecTick == InitReady /\ [][NextTick]_vars

(***************************************************************************)
(* Properties.                                                             *)
(***************************************************************************)
TypeOK ==
    /\ \A p \in DOMAIN documents : documents[p].status \in Statuses
    /\ \A s \in DOMAIN sessions : sessions[s].pc \in {"sent", "answered", "timer", "done"}

\* the step is poll() of session s handling the answer to its fetch
Handles(s) == sessions[s].pc = "answered" /\ sessions'[s].pc # "answered"

\* the step is handleDocumentUpload of upload u handling its response
Completes(u) == uploads[u].pc = "sent" /\ uploads'[u].pc = "done"

Failed(answer) == answer.kind \in {"notfound", "servererror", "throw"}

\* the entries of the list docs that carry the id
Entries(docs, id) == {p \in DOMAIN docs : docs[p].id = id}

\* C1: a failed status fetch (a thrown error or a non-OK response) does not
\* end the session: while fewer than 30 attempts are used, a further fetch
\* is scheduled.
C1_FailedFetchKeepsPolling ==
    [][\A s \in DOMAIN sessions :
          (Handles(s) /\ Failed(sessions[s].answer) /\ sessions[s].fetches < 30)
              => sessions'[s].pc = "timer"]_vars

\* C2: a session issues at most 30 status fetches, and after the 30th
\* non-terminal answer it schedules no further fetch.
C2_AtMostThirtyFetches ==
    \A s \in DOMAIN sessions :
        /\ sessions[s].fetches <= 30
        /\ sessions[s].nonTerminals >= 30 => sessions[s].pc = "done"

C2_Witness ==
    \E s \in DOMAIN sessions :
        sessions[s].fetches = 30 /\ sessions[s].nonTerminals = 30 /\ sessions[s].pc = "done"

\* C3: a tick that fetches ready or error sets every local entry of the
\* session's id to that status and ends the session: afterwards the session
\* schedules nothing and issues no fetch.
C3_TerminalStops ==
    [][\A s \in DOMAIN sessions :
          /\ (Handles(s) /\ sessions[s].answer.kind = "ok"
                /\ sessions[s].answer.status \in {"ready", "error"})
               => /\ sessions'[s].pc = "done"
                  /\ \A p \in Entries(documents', sessions[s].documentId) :
                        documents'[p].status = sessions[s].answer.status
          /\ sessions[s].seen \in {"ready", "error"}
               => /\ sessions'[s].pc = "done"
                  /\ sessions'[s].fetches = sessions[s].fetches]_vars

C3_Witness ==
    \E s \in DOMAIN sessions :
        /\ sessions[s].seen \in {"ready", "error"}
        /\ sessions[s].pc = "done"
        /\ \E p \in Entries(documents, sessions[s].documentId) :
              documents[p].status = sessions[s].seen

\* C4: a session that only gets non-terminal answers stops with its 30th
\* fetch, leaving the entries of its id with the last reported status and no
\* error; no tick sets an entry to error unless the server reported error.
C4_SilentExhaustion ==
    [][\A s \in DOMAIN sessions :
          /\ (Handles(s) /\ sessions[s].answer.kind = "ok"
                /\ sessions[s].answer.status \in Range(NonTerminal)
                /\ sessions[s].nonTerminals = 29)
               => /\ sessions'[s].pc = "done"
                  /\ \A p \in Entries(documents', sessions[s].documentId) :
                        /\ documents'[p].status = sessions[s].answer.status
                        /\ documents'[p].error = NoError
          /\ (Handles(s) /\ sessions[s].answer.status # "error")
               => \A p \in DOMAIN documents' :
                     documents'[p].status = "error" => documents[p].status = "error"
          /\ (sessions'[s].pc = "done" /\ sessions'[s].seen \in Range(NonTerminal))
               => sessions'[s].fetches = 30]_vars

C4_Witness ==
    \E s \in DOMAIN sessions :
        /\ sessions[s].pc = "done"
        /\ sessions[s].seen = "processing"
        /\ sessions[s].nonTerminals = 30
        /\ \E p \in Entries(documents, sessions[s].documentId) :
              documents[p].status = "processing" /\ documents[p].error = NoError

\* C5: a session that gets k-1 non-terminal answers and then ready has
\* issued exactly k fetches (k <= 30), sets its entries to ready and stops.
C5_ReadyAtKth ==
    [][\A s \in DOMAIN sessions :
          (Handles(s) /\ sessions[s].answer.kind = "ok" /\ sessions[s].answer.status = "ready")
              => /\ sessions[s].fetches = sessions[s].nonTerminals + 1
                 /\ sessions[s].fetches <= 30
                 /\ sessions'[s].pc = "done"
                 /\ sessions'[s].fetches = sessions[s].fetches
                 /\ \A p \in Entries(documents', sessions[s].documentId) :
                       documents'[p].status = "ready"]_vars

C5_Witness ==
    \E s \in DOMAIN sessions :
        /\ sessions[s].pc = "done"
        /\ sessions[s].seen = "ready"
        /\ sessions[s].nonTerminals = 2
        /\ sessions[s].fetches = 3
        /\ \E p \in Entries(documents, sessions[s].documentId) : documents[p].status = "ready"

C7_TickMutatesOneEntry ==
    [][\A s \in DOMAIN sessions :
          Handles(s) =>
              Cardinality({p \in DOMAIN documents : documents'[p] # documents[p]}) <= 1]_vars

\* C8: when a successful upload response is handled, the entry of the i-th
\* file of the batch gets the id the server gave the i-th file and keeps
\* that file's name and size.
C8_EntryGetsOwnServerId ==
    [][\A u \in DOMAIN uploads :
          (Completes(u) /\ uploads[u].kind = "ok")
              => \A i \in DOMAIN uploads[u].newDocuments :
                    \A p \in Entries(documents, uploads[u].newDocuments[i].id) :
                        /\ documents'[p].id = uploads[u].documents[i].id
                        /\ documents'[p].name = uploads[u].newDocuments[i].name
                        /\ documents'[p].size = uploads[u].newDocuments[i].size]_vars

\* the entry is the optimistic entry of an upload whose response is pending
Pending(id) ==
    \E u \in DOMAIN uploads : uploads[u].pc = "sent" /\ SomeId(uploads[u].newDocuments, id)

\* C9: every listed document with a non-terminal status (once its upload
\* response is handled) has a polling session, and no id has two sessions.
C9_EveryAwaitingDocumentPolled ==
    /\ \A p \in DOMAIN documents :
          (documents[p].status \in Range(NonTerminal) /\ ~Pending(documents[p].id))
              => \E s \in DOMAIN sessions : sessions[s].documentId = documents[p].id
    /\ \A s, t \in DOMAIN sessions :
          sessions[s].documentId = sessions[t].documentId => s = t

\* C10: a delete leaves every polling session as it is; the session that
\* then gets a not-found answer ends, and the document list is not changed
\* by that answer.
C10_NotFoundStopsSilently ==
    [][\A s \in DOMAIN sessions :
          /\ deletes' # deletes => sessions' = sessions
          /\ (Handles(s) /\ sessions[s].answer.kind = "notfound")
               => sessions'[s].pc = "done" /\ documents' = documents]_vars

C10_Witness ==
    \E s \in DOMAIN sessions :
        /\ sessions[s].pc = "done"
        /\ sessions[s].seen = "notfound"
        /\ sessions[s].fetches > 1
        /\ \E d \in DOMAIN deletes : deletes[d].pc = "done"

\* C11: in every state of the document list, an entry has progress 100
\* exactly when its status is ready.
C11_ProgressFullIffReady ==
    \A p \in DOMAIN documents :
        documents[p].progress = 100 <=> documents[p].status = "ready"

C11_Witness ==
    \E s \in DOMAIN sessions :
        /\ sessions[s].seen = "ready"
        /\ \E p \in Entries(documents, sessions[s].documentId) :
              documents[p].status = "ready" /\ documents[p].progress = 100

\* C12: in every state of the document list, an entry has an error message
\* exactly when its status is error (the server's answers carry an error
\* exactly with status error).
C12_ErrorIffStatusError ==
    \A p \in DOMAIN documents :
        documents[p].error # NoError <=> documents[p].status = "error"

C12_Witness ==
    \E p \in DOMAIN documents :
        documents[p].status = "error" /\ documents[p].error = "Upload failed"

\* the step is handleDeleteDocument of delete d handling its response
Returns(d) == deletes[d].pc = "sent" /\ deletes'[d].pc = "done"

\* the step handles the OK response of a DELETE of the id
ConfirmedDelete(id) ==
    \E d \in DOMAIN deletes :
        Returns(d) /\ deletes[d].kind = "ok" /\ deletes[d].documentId = id

\* the list docs without the entries that carry the id
Without(docs, id) == SelectSeq(docs, LAMBDA doc : doc.id # id)

\* C13: an entry with status ready or error keeps that status in every later
\* step, and it leaves the list only by a confirmed delete of its id.
C13_TerminalStays ==
    [][\A p \in DOMAIN documents :
          documents[p].status \in {"ready", "error"}
              => /\ \A q \in Entries(documents', documents[p].id) :
                       documents'[q].status = documents[p].status
                 /\ Entries(documents', documents[p].id) = {}
                       => ConfirmedDelete(documents[p].id)]_vars

\* C14: handling the response of a DELETE removes the entries of that id
\* when the response is OK, and leaves the list as it is otherwise.
C14_DeleteOnlyWhenConfirmed ==
    [][\A d \in DOMAIN deletes :
          Returns(d) =>
              IF deletes[d].kind = "ok"
              THEN documents' = Without(documents, deletes[d].documentId)
              ELSE documents' = documents]_vars

C14_Witness ==
    /\ load.pc = "sent"
    /\ nFiles = 1
    /\ documents = <<>>
    /\ \E d \in DOMAIN deletes : deletes[d].pc = "done"

\* the list docs shows the k-th uploaded file
Shows(docs, k) == \E p \in DOMAIN docs : docs[p].name = FileNames[k]

\* C15: a document appended by an upload stays in the list, under its local
\* or its server id, until a confirmed delete of it.
C15_UploadedDocumentStays ==
    [][\A k \in 1..nFiles :
          (Shows(documents, k) /\ ~Shows(documents', k))
              => \E p \in DOMAIN documents :
                    documents[p].name = FileNames[k] /\ ConfirmedDelete(documents[p].id)]_vars

\* C17: while the response of an upload is pending, the entries of its
\* documents have status uploading, progress 0 and no error, and no polling
\* session exists for their local ids or for the ids the server gave them.
C17_UploadingUntilResponse ==
    \A u \in DOMAIN uploads :
        uploads[u].pc = "sent" =>
            \A i \in DOMAIN uploads[u].newDocuments :
                /\ \A p \in Entries(documents, uploads[u].newDocuments[i].id) :
                      /\ documents[p].status = "uploading"
                      /\ documents[p].progress = 0
                      /\ documents[p].error = NoError
                /\ \A s \in DOMAIN sessions :
                      /\ sessions[s].documentId # uploads[u].newDocuments[i].id
                      /\ i \in DOMAIN uploads[u].documents
                            => sessions[s].documentId # uploads[u].documents[i].id

C17_Witness ==
    \E u \in DOMAIN uploads :
        /\ uploads[u].pc = "sent"
        /\ uploads[u].kind = "ok"
        /\ Entries(documents, uploads[u].newDocuments[1].id) # {}
        /\ \E i \in DOMAIN srv :
              srv[i].id = uploads[u].documents[1].id /\ srv[i].status # "uploading"

\* C19: a tick that gets a non-terminal status sets the entries of its id to
\* that status with progress 75, and schedules the next tick exactly when
\* fewer than 30 non-terminal answers are counted, this one included.
C19_NonTerminalTick ==
    [][\A s \in DOMAIN sessions :
          (Handles(s) /\ sessions[s].answer.kind = "ok"
             /\ sessions[s].answer.status \in Range(NonTerminal))
              => /\ \A p \in Entries(documents', sessions[s].documentId) :
                       /\ documents'[p].status = sessions[s].answer.status
                       /\ documents'[p].progress = 75
                 /\ sessions'[s].pc = "timer" <=> sessions[s].nonTerminals + 1 < 30
                 /\ sessions'[s].pc \in {"timer", "done"}]_vars

C19_Witness ==
    \E s \in DOMAIN sessions :
        /\ sessions[s].pc = "timer"
        /\ sessions[s].nonTerminals = 29
        /\ \E p \in Entries(documents, sessions[s].documentId) :
              documents[p].status = sessions[s].seen /\ documents[p].progress = 75

\* a is b with some elements left out, the others in the order of b
RECURSIVE IsSubsequence(_, _)
IsSubsequence(a, b) ==
    IF a = <<>> THEN TRUE
    ELSE IF b = <<>> THEN FALSE
    ELSE IF Head(a) = Head(b) THEN IsSubsequence(Tail(a), Tail(b))
    ELSE IsSubsequence(a, Tail(b))

Ids(docs) == [p \in DOMAIN docs |-> docs[p].id]

\* C20: an upload appends its documents after the entries of the list; a
\* poll tick and an upload response keep every entry at its position; a
\* delete leaves the remaining entries in their order.
C20_InsertionOrder ==
    [][/\ Len(uploads') > Len(uploads)
            => /\ Len(documents') > Len(documents)
               /\ SubSeq(documents', 1, Len(documents)) = documents
       /\ \A s \in DOMAIN sessions :
             Handles(s) => Ids(documents') = Ids(documents)
       /\ \A u \in DOMAIN uploads :
             Completes(u) =>
                 /\ Len(documents') = Len(documents)
                 /\ \A p \in DOMAIN documents :
                       ~SomeId(uploads[u].newDocuments, documents[p].id)
                           => documents'[p] = documents[p]
       /\ \A d \in DOMAIN deletes :
             Returns(d) => IsSubsequence(documents', documents)]_vars

C20_Witness ==
    /\ Len(documents) = 3
    /\ documents[1].id = 1
    /\ documents[2].id < 0
    /\ documents[3].id < 0

\* the file has one of the two types and at most 10 MiB
Acceptable(file) ==
    /\ file.type \in {"application/pdf", "text/plain"}
    /\ file.size <= 10485760

\* C16: onUpload gets only files of type PDF or plain text with at most
\* 10485760 bytes, and it gets every such file of a drop without rejected
\* files; every entry of the list and every document the server created
\* stems from such a file.
C16_OnlyValidFilesUploaded ==
    /\ \A c \in DOMAIN dropzone.onUpload :
          \A i \in DOMAIN dropzone.onUpload[c] : Acceptable(dropzone.onUpload[c][i])
    /\ Len(dropzone.rejectedFiles) = 0 =>
          \A i \in DOMAIN dropzone.acceptedFiles :
              Acceptable(dropzone.acceptedFiles[i]) =>
                  \E c \in DOMAIN dropzone.onUpload :
                      \E j \in DOMAIN dropzone.onUpload[c] :
                          dropzone.onUpload[c][j] = dropzone.acceptedFiles[i]
    /\ \A p \in DOMAIN documents :
          \E file \in DropFiles :
              /\ Acceptable(file)
              /\ file.name = documents[p].name /\ file.size = documents[p].size
    /\ \A i \in DOMAIN srv :
          \E file \in DropFiles :
              /\ Acceptable(file)
              /\ file.name = srv[i].filename /\ file.size = srv[i].size

C16_Witness ==
    /\ \E i \in DOMAIN dropzone.acceptedFiles : dropzone.acceptedFiles[i].size = 10485760
    /\ \E i \in DOMAIN dropzone.acceptedFiles : dropzone.acceptedFiles[i].size = 10485761
    /\ Len(dropzone.onUpload) = 1
    /\ \E p \in DOMAIN documents : documents[p].size = 10485760
    /\ \E i \in DOMAIN srv : srv[i].size = 10485760

\* the step is handleSendMessage of chat request c handling its answer
Answers(c) == chats[c].pc = "sent" /\ chats'[c].pc = "done"

Of(type) == {i \in DOMAIN messages : messages[i].type = type}
InFlight == {c \in DOMAIN chats : chats[c].pc = "sent"}

\* C18: the step that handles the answer of a chat request, whatever the
\* answer, appends one assistant message and sets isLoading to false; there
\* are as many user messages as requests and as many assistant messages as
\* handled requests; and every request in flight is eventually handled.
C18_OneAssistantMessagePerRequest ==
    /\ [][\A c \in DOMAIN chats :
             Answers(c) =>
                 /\ Len(messages') = Len(messages) + 1
                 /\ SubSeq(messages', 1, Len(messages)) = messages
                 /\ messages'[Len(messages')].type = "assistant"
                 /\ isLoading' = FALSE]_vars
    /\ [](/\ Cardinality(Of("user")) = Len(chats)
          /\ Cardinality(Of("assistant")) = Len(chats) - Cardinality(InFlight))
    /\ \A c \in 1..MaxMessages :
          (c \in DOMAIN chats /\ chats[c].pc = "sent")
              ~> (c \in DOMAIN chats /\ chats[c].pc = "done" /\ ~isLoading)

C18_Witness ==
    \E c \in DOMAIN chats :
        /\ chats[c].pc = "done"
        /\ chats[c].result.kind = "throw"
        /\ ~isLoading
        /\ messages[2 * c].type = "assistant"
        /\ messages[2 * c - 1].type = "user"

\* the state the last call of advance() asked for
Requested == IF rpc.error # NoError THEN "error" ELSE rpc.nextStatus

\* C21: a call of advance() on a document that is ready or in error, for
\* any other state, fails with InvalidTransition and leaves the record of
\* the document (status, progress, error) as it was.
C21_AdvanceFromTerminalFails ==
    (/\ rpc.op = "advance"
     /\ rpc.before.status \in {"ready", "error"}
     /\ Requested # rpc.before.status)
        => /\ rpc.result = "InvalidTransition"
           /\ RecordOf(rpc.id) = rpc.before

C21_Witness ==
    /\ rpc.op = "advance"
    /\ rpc.before.status = "ready"
    /\ rpc.before.progress = 100
    /\ rpc.nextStatus = "chunking"
    /\ rpc.result = "InvalidTransition"
    /\ RecordOf(rpc.id).status = "ready"

\* C22: delete(id) returns success whether or not the id is stored, no id
\* that delete() was called with is stored afterwards, whatever calls of
\* advance() follow, and get(id) of such an id fails with NotFound.
C22_DeleteIdempotent ==
    /\ rpc.op = "delete" => rpc.result = "ok"
    /\ \A id \in rpc.deleted : ~SomeId(srv, id)
    /\ (rpc.op = "get" /\ rpc.id \in rpc.deleted) => rpc.result = "NotFound"

C22_Witness ==
    /\ rpc.op = "delete"
    /\ rpc.before = NoDocument
    /\ rpc.id < nextId
    /\ rpc.result = "ok"

\* the place of a status in the order of the stages; error is last
StageRank(status) ==
    CASE status = "uploading" -> 1
      [] status = "processing" -> 2
      [] status = "chunking" -> 3
      [] status = "embedding" -> 4
      [] status = "ready" -> 5
      [] OTHER -> 6

\* C23: when a poll tick or an upload response changes the status of an
\* entry, the new status is error or a later stage than the old one.
C23_StatusNeverMovesBackward ==
    [][((\E s \in DOMAIN sessions : Handles(s)) \/ (\E u \in DOMAIN uploads : Completes(u)))
          => \A p \in DOMAIN documents :
                (p \in DOMAIN documents' /\ documents'[p].status # documents[p].status)
                    => \/ documents'[p].status = "error"
                       \/ StageRank(documents'[p].status) > StageRank(documents[p].status)]_vars

\* C24: the ids of the entries of the document list are pairwise distinct.
C24_IdsDistinct ==
    \A p, q \in DOMAIN documents : p # q => documents[p].id # documents[q].id

\* C25: a poll tick adds no entry: a tick for an id that has no entry, the
\* entry having been deleted, leaves the list without an entry of that id.
C25_TickNeverRestores ==
    [][\A s \in DOMAIN sessions :
          Handles(s) =>
              /\ Len(documents') = Len(documents)
              /\ Entries(documents, sessions[s].documentId) = {}
                    => Entries(documents', sessions[s].documentId) = {}]_vars

C25_Witness ==
    \E s \in DOMAIN sessions :
        /\ sessions[s].seen \in Statuses
        /\ sessions[s].fetches = 1
        /\ Entries(documents, sessions[s].documentId) = {}
        /\ documents = <<>>
        /\ \E d \in DOMAIN deletes : deletes[d].pc = "done"

C27_FailedUploadMarksBatch ==
    [][\A u \in DOMAIN uploads :
          (Completes(u) /\ uploads[u].kind # "ok")
              => /\ Len(documents') = Len(documents)
                 /\ \A p \in DOMAIN documents :
                       IF \E i \in DOMAIN uploads[u].newDocuments :
                             uploads[u].newDocuments[i].id = documents[p].id
                       THEN /\ documents'[p].status = "error"
                            /\ documents'[p].error # NoError
                            /\ documents'[p].id = documents[p].id
                       ELSE documents'[p] = documents[p]
                 /\ sessions' = sessions]_vars

C27_Witness ==
    /\ Len(documents) = 3
    /\ documents[1].status # "error"
    /\ documents[2].status = "error" /\ documents[2].error = "Network error"
    /\ documents[3].status = "error" /\ documents[3].error = "Network error"
    /\ sessions = <<>>

\* the text has a token that is not white space
NonBlank(text) == \E i \in DOMAIN text : text[i] # " "

\* C28: at most one chat request is in flight, isLoading is true exactly
\* while one is, no user message is empty or white space only, and the
\* messages alternate user, assistant, starting with a user message.
C28_OneRequestAtATime ==
    /\ Cardinality(InFlight) <= 1
    /\ isLoading <=> InFlight # {}
    /\ \A i \in DOMAIN messages :
          /\ messages[i].type = (IF i % 2 = 1 THEN "user" ELSE "assistant")
          /\ messages[i].type = "user" => NonBlank(messages[i].content)

C28_Witness ==
    /\ Len(messages) = 3
    /\ messages[3].content = <<"hi">>
    /\ isLoading
    /\ Cardinality(InFlight) = 1

\* C29: a poll tick keeps the length of the list, keeps id, name, type,
\* size and uploadedAt of the entries of its id, keeps every other entry as
\* it is, and keeps messages, isLoading, currentTab and selectedSources.
C29_TickFrame ==
    [][\A s \in DOMAIN sessions :
          Handles(s) =>
              /\ Len(documents') = Len(documents)
              /\ \A p \in DOMAIN documents :
                    IF documents[p].id = sessions[s].documentId
                    THEN /\ documents'[p].id = documents[p].id
                         /\ documents'[p].name = documents[p].name
                         /\ documents'[p].type = documents[p].type
                         /\ documents'[p].size = documents[p].size
                         /\ documents'[p].uploadedAt = documents[p].uploadedAt
                    ELSE documents'[p] = documents[p]
              /\ messages' = messages
              /\ isLoading' = isLoading
              /\ currentTab' = currentTab
              /\ selectedSources' = selectedSources]_vars

C29_Witness ==
    /\ isLoading
    /\ messages # <<>>
    /\ currentTab = "sources"
    /\ Len(documents) = 2
    /\ \E s \in DOMAIN sessions :
          /\ sessions[s].seen \in Range(NonTerminal)
          /\ \E p \in Entries(documents, sessions[s].documentId) :
                documents[p].status = sessions[s].seen /\ documents[p].progress = 75

\* the step is a drop on the dropzone
Drops == dropzone'.drops = dropzone.drops + 1

\* C30: after a drop with a rejected file onUpload was not called, and the
\* drop changed neither the list nor the uploads; after a drop without
\* rejected files onUpload was called once with the files that pass
\* validateFile, or not at all when no file passes.
C30_DropAllOrNothing ==
    /\ [](IF Len(dropzone.rejectedFiles) > 0
          THEN dropzone.onUpload = <<>>
          ELSE IF SelectSeq(dropzone.acceptedFiles, ValidateFile) = <<>>
          THEN dropzone.onUpload = <<>>
          ELSE dropzone.onUpload = <<SelectSeq(dropzone.acceptedFiles, ValidateFile)>>)
    /\ [][(Drops /\ dropzone'.onUpload = <<>>)
             => (documents' = documents /\ uploads' = uploads /\ srv' = srv)]_vars
    /\ [][(Drops /\ dropzone'.onUpload # <<>>)
             => /\ Len(uploads') = Len(uploads) + 1
                /\ Len(documents') = Len(documents) + Len(dropzone'.onUpload[1])]_vars

C30_Witness ==
    /\ Len(dropzone.rejectedFiles) > 0
    /\ \E i \in DOMAIN dropzone.acceptedFiles : Acceptable(dropzone.acceptedFiles[i])
    /\ dropzone.onUpload = <<>>
    /\ documents = <<>>
    /\ dropzone.drops = 1

====
